---- MODULE Spec2Model ----
(***************************************************************************)
(* Model of the secure password generator (src/project/core.py) and of the *)
(* pipeline that drives it (src/project/cli.py, main).                     *)
(*                                                                         *)
(* Characters are their ASCII code points, strings are sequences of code   *)
(* points, so sorted() is ascending order of naturals.  Every random draw  *)
(* (secrets.choice, secrets.randbelow) is a nondeterministic choice.       *)
(***************************************************************************)
EXTENDS Integers, Sequences, FiniteSets, TLC

(***************************************************************************)
(* Bounds of the exploration.                                              *)
(***************************************************************************)
\* passwords are generated only from pools of at most MaxPool characters
MaxPool == 3
\* args.length ranges over 0..MaxLen
MaxLen == 3
\* args.count ranges over 1..MaxCount
MaxCount == 2

(***************************************************************************)
(* Strings and sets of characters.                                         *)
(***************************************************************************)
\* all ASCII code points
Chars == 0..127

\* set(s): the characters of a string
CharSet(s) == {s[i] : i \in DOMAIN s}

\* "".join(sorted(S)): the characters of S in ascending order
SortedStr(S) == SelectSeq([i \in 1..128 |-> i - 1], LAMBDA c : c \in S)

\* string.ascii_lowercase, string.ascii_uppercase, string.digits
ascii_lowercase == [i \in 1..26 |-> 96 + i]
ascii_uppercase == [i \in 1..26 |-> 64 + i]
ascii_digits == [i \in 1..10 |-> 47 + i]
\* string.punctuation: !"#$%&'()*+,-./ :;<=>?@ [\]^_` {|}~
punctuation ==
    [i \in 1..15 |-> 32 + i] \o [i \in 1..7 |-> 57 + i]
        \o [i \in 1..6 |-> 90 + i] \o [i \in 1..4 |-> 122 + i]

\* set("O0oIl1|`'\"{}[]()/\;:,.<>")
AMBIGUOUS_DEFAULT ==
    {79, 48, 111, 73, 108, 49, 124, 96, 39, 34, 123, 125, 91, 93, 40, 41,
     47, 92, 59, 58, 44, 46, 60, 62}

\* "ABC...Zabc...z0123456789-._~"
URL_SAFE_UNRESERVED ==
    ascii_uppercase \o ascii_lowercase \o ascii_digits \o <<45, 46, 95, 126>>

\* set("\r\n\t ")
WHITESPACE == {13, 10, 9, 32}

\* the value of an absent --symbols-set, and of a given one
None == [is_none |-> TRUE, value |-> <<>>]
Given(s) == [is_none |-> FALSE, value |-> s]

(***************************************************************************)
(* build_pool                                                              *)
(***************************************************************************)
\* the order of the keys of the dicts `classes` and `selected_classes`
CLASS_ORDER == <<"lower", "upper", "digits", "symbols">>

\* the dict `classes`
classes(args) ==
    [lower |-> ascii_lowercase,
     upper |-> ascii_uppercase,
     digits |-> ascii_digits,
     symbols |-> IF args.symbols_set.is_none THEN punctuation
                 ELSE args.symbols_set.value]

includes_specified(args) ==
    args.lower \/ args.upper \/ args.digits \/ args.symbols

\* selected_classes without the default of all four classes
selected_classes_no_default(args) ==
    [lower |-> args.lower, upper |-> args.upper,
     digits |-> args.digits, symbols |-> args.symbols]

\* the dict `selected_classes` of the branch without --url-safe
selected_classes(args) ==
    IF includes_specified(args)
    THEN [lower |-> args.lower, upper |-> args.upper,
          digits |-> args.digits, symbols |-> args.symbols]
    ELSE [lower |-> TRUE, upper |-> TRUE, digits |-> TRUE, symbols |-> TRUE]

\* the list `pool_parts`
pool_parts(args) ==
    IF args.url_safe THEN <<URL_SAFE_UNRESERVED>>
    ELSE LET names == SelectSeq(CLASS_ORDER, LAMBDA n : selected_classes(args)[n])
         IN [i \in 1..Len(names) |-> classes(args)[names[i]]]

\* the list `class_names`
active_class_names(args) ==
    IF args.url_safe THEN <<"url_safe">>
    ELSE SelectSeq(CLASS_ORDER, LAMBDA n : selected_classes(args)[n])

\* the filters without the removal of whitespace
filtered_pool_keeping_whitespace(args) ==
    LET merged == UNION {CharSet(pool_parts(args)[i]) : i \in DOMAIN pool_parts(args)}
        unamb == IF args.no_ambiguous /\ ~args.url_safe
                 THEN merged \ AMBIGUOUS_DEFAULT ELSE merged
    IN IF args.exclude # <<>> THEN unamb \ CharSet(args.exclude) ELSE unamb

\* the filters with --no-ambiguous applied to the url-safe pool too
filtered_pool_always_unambiguous(args) ==
    LET merged == UNION {CharSet(pool_parts(args)[i]) : i \in DOMAIN pool_parts(args)}
        unamb == IF args.no_ambiguous THEN merged \ AMBIGUOUS_DEFAULT ELSE merged
        kept == IF args.exclude # <<>> THEN unamb \ CharSet(args.exclude) ELSE unamb
    IN kept \ WHITESPACE

\* the set `pool` after the merge and the three filters
filtered_pool(args) ==
    LET merged == UNION {CharSet(pool_parts(args)[i]) : i \in DOMAIN pool_parts(args)}
        unamb == IF args.no_ambiguous /\ ~args.url_safe
                 THEN merged \ AMBIGUOUS_DEFAULT ELSE merged
        kept == IF args.exclude # <<>> THEN unamb \ CharSet(args.exclude) ELSE unamb
    IN kept \ WHITESPACE

\* build_pool(args): exit names the sys.exit taken ("" when it returns)
build_pool(args) ==
    IF pool_parts(args) = <<>>
    THEN [exit |-> "EmptySelection", pool |-> <<>>, class_names |-> <<>>]
    ELSE IF filtered_pool(args) = {}
    THEN [exit |-> "EmptyPool", pool |-> <<>>, class_names |-> <<>>]
    ELSE [exit |-> "", pool |-> SortedStr(filtered_pool(args)),
          class_names |-> active_class_names(args)]

(***************************************************************************)
(* build_pool_map and ensure_requirements                                  *)
(***************************************************************************)
\* build_pool_map whose lower slice takes the letters of either case
build_pool_map_any_case(pool) ==
    [lower |-> SortedStr(CharSet(pool)
                    \cap (CharSet(ascii_lowercase) \cup CharSet(ascii_uppercase))),
     upper |-> SortedStr(CharSet(pool) \cap CharSet(ascii_uppercase)),
     digits |-> SortedStr(CharSet(pool) \cap CharSet(ascii_digits)),
     symbols |-> SortedStr(CharSet(pool) \cap CharSet(punctuation))]

build_pool_map(pool) ==
    [lower |-> SortedStr(CharSet(pool) \cap CharSet(ascii_lowercase)),
     upper |-> SortedStr(CharSet(pool) \cap CharSet(ascii_uppercase)),
     digits |-> SortedStr(CharSet(pool) \cap CharSet(ascii_digits)),
     symbols |-> SortedStr(CharSet(pool) \cap CharSet(punctuation))]

\* pool_map.get(n); None is the empty (falsy) string
MapGet(pool_map, n) == IF n \in DOMAIN pool_map THEN pool_map[n] ELSE <<>>

\* x in seq
Contains(seq, x) == \E i \in DOMAIN seq : seq[i] = x

\* the list `missing`
missing_classes(class_names, pool) ==
    SelectSeq(class_names, LAMBDA n : MapGet(build_pool_map(pool), n) = <<>>)

\* ensure_requirements without the comparison of length and pool size
ensure_requirements_no_pool_size(length, class_names, require_classes, no_repeat, pool) ==
    IF length < 1
    THEN [exit |-> "InvalidLength", missing |-> <<>>]
    ELSE IF require_classes /\ ~Contains(class_names, "url_safe")
    THEN IF missing_classes(class_names, pool) # <<>>
         THEN [exit |-> "UnsatisfiableClass",
               missing |-> missing_classes(class_names, pool)]
         ELSE IF length < Len(class_names)
         THEN [exit |-> "LengthBelowClassCount", missing |-> <<>>]
         ELSE [exit |-> "", missing |-> <<>>]
    ELSE [exit |-> "", missing |-> <<>>]

\* ensure_requirements with the class count checked before the empty classes
ensure_requirements_count_first(length, class_names, require_classes, no_repeat, pool) ==
    IF length < 1
    THEN [exit |-> "InvalidLength", missing |-> <<>>]
    ELSE IF no_repeat /\ length > Len(pool)
    THEN [exit |-> "PoolTooSmall", missing |-> <<>>]
    ELSE IF require_classes /\ ~Contains(class_names, "url_safe")
    THEN IF length < Len(class_names)
         THEN [exit |-> "LengthBelowClassCount", missing |-> <<>>]
         ELSE IF missing_classes(class_names, pool) # <<>>
         THEN [exit |-> "UnsatisfiableClass",
               missing |-> missing_classes(class_names, pool)]
         ELSE [exit |-> "", missing |-> <<>>]
    ELSE [exit |-> "", missing |-> <<>>]

\* ensure_requirements: exit names the sys.exit taken ("" when it returns)
ensure_requirements(length, class_names, require_classes, no_repeat, pool) ==
    IF length < 1
    THEN [exit |-> "InvalidLength", missing |-> <<>>]
    ELSE IF no_repeat /\ length > Len(pool)
    THEN [exit |-> "PoolTooSmall", missing |-> <<>>]
    ELSE IF require_classes /\ ~Contains(class_names, "url_safe")
    THEN IF missing_classes(class_names, pool) # <<>>
         THEN [exit |-> "UnsatisfiableClass",
               missing |-> missing_classes(class_names, pool)]
         ELSE IF length < Len(class_names)
         THEN [exit |-> "LengthBelowClassCount", missing |-> <<>>]
         ELSE [exit |-> "", missing |-> <<>>]
    ELSE [exit |-> "", missing |-> <<>>]

(***************************************************************************)
(* secure_shuffle, pick_from_each_class and one pass of the loop of        *)
(* generate_passwords.  The random draws are explicit arguments.           *)
(***************************************************************************)
\* lst[i] = lst[j] without the assignment back to lst[j]
SwapLosingOne(lst, i, j) ==
    [k \in DOMAIN lst |-> IF k = i + 1 THEN lst[j + 1] ELSE lst[k]]

\* lst[i], lst[j] = lst[j], lst[i]  (0-based i, j)
Swap(lst, i, j) ==
    [k \in DOMAIN lst |-> IF k = i + 1 THEN lst[j + 1]
                          ELSE IF k = j + 1 THEN lst[i + 1] ELSE lst[k]]

\* the draw sequences of secure_shuffle on n elements: the t-th draw is
\* randbelow(i + 1) for i = n - t
ShuffleDraws(n) ==
    {d \in [1..(n - 1) -> 0..(n - 1)] : \A t \in 1..(n - 1) : d[t] <= n - t}

RECURSIVE shuffle_from(_, _, _)
\* the loop of secure_shuffle from index i down to 1
shuffle_from(lst, draws, i) ==
    IF i < 1 THEN lst
    ELSE shuffle_from(Swap(lst, i, draws[Len(lst) - i]), draws, i - 1)

secure_shuffle(lst, draws) == shuffle_from(lst, draws, Len(lst) - 1)

\* the draws of pick_from_each_class: one index per class name, below the
\* size of the class's slice (the url_safe entry draws nothing)
PickDraws(class_names, pool_map) ==
    LET size(n) == IF n = "url_safe" THEN 1 ELSE Len(pool_map[n])
        most == Len(pool_map.lower) + Len(pool_map.upper)
                    + Len(pool_map.digits) + Len(pool_map.symbols)
    IN {d \in [DOMAIN class_names -> 0..most] :
            \A i \in DOMAIN class_names : d[i] < size(class_names[i])}

\* choice(s) raises IndexError on an empty s
pick_raises(class_names, pool_map) ==
    \E i \in DOMAIN class_names :
        class_names[i] # "url_safe" /\ pool_map[class_names[i]] = <<>>

\* pick_from_each_class returning after the first class
pick_first_class_only(class_names, pool_map, draws) ==
    IF class_names = <<>> \/ Head(class_names) = "url_safe" THEN <<>>
    ELSE <<pool_map[Head(class_names)][Head(draws) + 1]>>

RECURSIVE pick_from_each_class(_, _, _)
pick_from_each_class(class_names, pool_map, draws) ==
    IF class_names = <<>> THEN <<>>
    ELSE IF Head(class_names) = "url_safe"
    THEN pick_from_each_class(Tail(class_names), pool_map, Tail(draws))
    ELSE <<pool_map[Head(class_names)][Head(draws) + 1]>>
            \o pick_from_each_class(Tail(class_names), pool_map, Tail(draws))

\* whether the loop body seeds one character per class
seeding(args) == args.require_classes /\ ~args.url_safe

\* `remaining` computed without subtracting the seeded characters
remaining_ignoring_seeds(args, chars) == args.length

\* `remaining`, floored at 0
remaining_of(args, chars) ==
    IF args.length - Len(chars) < 0 THEN 0 ELSE args.length - Len(chars)

\* available, forgetting to leave out the seeded characters
available_ignoring_used(pool, chars) == pool

\* the list `available`
available(pool, chars) == SelectSeq(pool, LAMBDA c : c \notin CharSet(chars))

\* chars.extend(av_list[:remaining]) after secure_shuffle(av_list)
fill_no_repeat(pool, chars, remaining, draws) ==
    LET av_list == secure_shuffle(available(pool, chars), draws)
    IN chars \o SubSeq(av_list, 1, remaining)

\* remaining times chars.append(choice(pool))
fill_repeat(pool, chars, remaining, draws) ==
    chars \o [i \in 1..remaining |-> pool[draws[i] + 1]]

\* pwd = f"{args.prefix}{core}{args.suffix}" after secure_shuffle(chars)
assemble(args, chars, draws) ==
    args.prefix \o secure_shuffle(chars, draws) \o args.suffix

(***************************************************************************)
(* The inputs explored: the argparse namespace `args`.                     *)
(***************************************************************************)
\* an --exclude string that leaves only the characters of keep
Except(keep) == SortedStr(Chars \ keep)

\* --symbols-set: absent, or "!a !" (whitespace, a duplicate, a letter)
SymbolSets == {None, Given(<<33, 97, 32, 33>>)}

\* --exclude: "", "!", all but "abA", all but "a0!", all but "aA2-",
\* all but "0l"
Excludes ==
    {<<>>, <<33>>, Except({97, 98, 65}), Except({97, 48, 33}),
     Except({97, 65, 50, 45}), Except({48, 108})}

\* (--prefix, --suffix): none, or "p " and "!"
Decorations == {<<(<<>>), (<<>>)>>, <<(<<112, 32>>), (<<33>>)>>}

Selections ==
    [lower : BOOLEAN, upper : BOOLEAN, digits : BOOLEAN, symbols : BOOLEAN,
     symbols_set : SymbolSets, exclude : Excludes,
     no_ambiguous : BOOLEAN, url_safe : BOOLEAN]

\* selections explored with several passwords and with decorations
FewSelections ==
    {sel \in Selections :
        /\ sel.symbols_set = None
        /\ ~sel.no_ambiguous
        /\ sel.exclude = Except({97, 48, 33})
        /\ ~sel.upper /\ ~sel.symbols
        /\ sel.lower}

MakeArgs(sel, length, count, require_classes, no_repeat, deco) ==
    [lower |-> sel.lower, upper |-> sel.upper, digits |-> sel.digits,
     symbols |-> sel.symbols, symbols_set |-> sel.symbols_set,
     exclude |-> sel.exclude, no_ambiguous |-> sel.no_ambiguous,
     url_safe |-> sel.url_safe,
     length |-> length, count |-> count,
     require_classes |-> require_classes, no_repeat |-> no_repeat,
     prefix |-> deco[1], suffix |-> deco[2]]

ArgsSet ==
    {MakeArgs(sel, l, 1, rc, nr, <<(<<>>), (<<>>)>>) :
        sel \in Selections, l \in 0..MaxLen, rc \in BOOLEAN, nr \in BOOLEAN}
    \cup
    {MakeArgs(sel, l, ct, x[1], x[2], deco) :
        sel \in FewSelections, l \in 0..MaxLen, ct \in 1..MaxCount,
        x \in BOOLEAN \X BOOLEAN, deco \in Decorations}

(***************************************************************************)
(* State.                                                                  *)
(***************************************************************************)
VARIABLES
    args,        \* the parsed arguments
    pc,          \* the call about to run, "done" or "exit"
    pool,        \* main: pool
    class_names, \* main: class_names
    exit,        \* which sys.exit or exception ended the process ("" if none)
    missing,     \* the classes named by the UnsatisfiableClass message
    pool_map,    \* generate_passwords: pool_map
    passwords,   \* generate_passwords: passwords
    chars,       \* generate_passwords: chars, within one pass of the loop
    pwds,        \* main: pwds, the list generate_passwords returned
    shuffle      \* a call of secure_shuffle on its own: its argument as
                 \* passed, lst, the loop index i, the draws made so far

vars ==
    <<args, pc, pool, class_names, exit, missing, pool_map, passwords, chars, pwds,
      shuffle>>

\* no list was returned (yet)
NotReturned == [returned |-> FALSE, list |-> <<>>]
Returned(list) == [returned |-> TRUE, list |-> list]

\* no call of secure_shuffle on its own is under way
NoShuffle == [input |-> <<>>, lst |-> <<>>, i |-> 0, draws |-> <<>>]

EmptyMap == [lower |-> <<>>, upper |-> <<>>, digits |-> <<>>, symbols |-> <<>>]

Init ==
    /\ args \in ArgsSet
    /\ pc = "build_pool"
    /\ pool = <<>>
    /\ class_names = <<>>
    /\ exit = ""
    /\ missing = <<>>
    /\ pool_map = EmptyMap
    /\ passwords = <<>>
    /\ chars = <<>>
    /\ pwds = NotReturned
    /\ shuffle = NoShuffle

(***************************************************************************)
(* Actions.                                                                *)
(***************************************************************************)
\* pool, class_names = build_pool(args), followed by the call named next
BuildPoolThen(next) ==
    /\ pc = "build_pool"
    /\ LET r == build_pool(args)
       IN IF r.exit # ""
          THEN /\ pc' = "exit"
               /\ exit' = r.exit
               /\ UNCHANGED <<pool, class_names>>
          ELSE /\ pc' = next
               /\ pool' = r.pool
               /\ class_names' = r.class_names
               /\ UNCHANGED exit
    /\ UNCHANGED <<args, missing, pool_map, passwords, chars, pwds, shuffle>>

\* main: build_pool, then ensure_requirements
BuildPool == BuildPoolThen("ensure_requirements")

\* a caller of the core that generates without validating
BuildPoolUnchecked == BuildPoolThen("generate_passwords")

\* ensure_requirements(args.length, class_names, args.require_classes,
\*                     args.no_repeat, pool)
EnsureRequirements ==
    /\ pc = "ensure_requirements"
    /\ LET r == ensure_requirements(args.length, class_names,
                                    args.require_classes, args.no_repeat, pool)
       IN IF r.exit # ""
          THEN /\ pc' = "exit"
               /\ exit' = r.exit
               /\ missing' = r.missing
          ELSE /\ pc' = "generate_passwords"
               /\ UNCHANGED <<exit, missing>>
    /\ UNCHANGED <<args, pool, class_names, pool_map, passwords, chars, pwds, shuffle>>

\* generate_passwords up to the loop
GenerateStart ==
    /\ pc = "generate_passwords"
    /\ Len(pool) <= MaxPool
    /\ pool_map' = build_pool_map(pool)
    /\ passwords' = <<>>
    /\ pc' = "loop"
    /\ UNCHANGED <<args, pool, class_names, exit, missing, chars, pwds, shuffle>>

\* one pass of the loop, up to `remaining`: the seeding
Seed ==
    /\ pc = "loop"
    /\ Len(passwords) < args.count
    /\ IF seeding(args)
       THEN IF pick_raises(class_names, pool_map)
            THEN /\ pc' = "exit"
                 /\ exit' = "IndexError"
                 /\ UNCHANGED chars
            ELSE /\ \E draws \in PickDraws(class_names, pool_map) :
                        chars' = pick_from_each_class(class_names, pool_map, draws)
                 /\ pc' = "fill"
                 /\ UNCHANGED exit
       ELSE /\ chars' = <<>>
            /\ pc' = "fill"
            /\ UNCHANGED exit
    /\ UNCHANGED <<args, pool, class_names, missing, pool_map, passwords, pwds, shuffle>>

\* the rest of the pass: fill, shuffle, assemble, append
Fill ==
    /\ pc = "fill"
    /\ LET remaining == remaining_of(args, chars)
       IN IF args.no_repeat
          THEN IF Len(available(pool, chars)) < remaining
               THEN /\ pc' = "exit"
                    /\ exit' = "InsufficientUniqueChars"
                    /\ UNCHANGED <<passwords, chars>>
               ELSE /\ \E d1 \in ShuffleDraws(Len(available(pool, chars))) :
                        LET filled == fill_no_repeat(pool, chars, remaining, d1)
                        IN \E d2 \in ShuffleDraws(Len(filled)) :
                              passwords' = Append(passwords, assemble(args, filled, d2))
                    /\ chars' = <<>>
                    /\ pc' = "loop"
                    /\ UNCHANGED exit
          ELSE /\ \E d1 \in [1..remaining -> 0..(Len(pool) - 1)] :
                    LET filled == fill_repeat(pool, chars, remaining, d1)
                    IN \E d2 \in ShuffleDraws(Len(filled)) :
                          passwords' = Append(passwords, assemble(args, filled, d2))
               /\ chars' = <<>>
               /\ pc' = "loop"
               /\ UNCHANGED exit
    /\ UNCHANGED <<args, pool, class_names, missing, pool_map, pwds, shuffle>>

\* return passwords
Return ==
    /\ pc = "loop"
    /\ Len(passwords) >= args.count
    /\ pwds' = Returned(passwords)
    /\ pc' = "done"
    /\ UNCHANGED <<args, pool, class_names, exit, missing, pool_map, passwords, chars, shuffle>>

Next ==
    \/ BuildPool
    \/ EnsureRequirements
    \/ GenerateStart
    \/ Seed
    \/ Fill
    \/ Return

Spec == Init /\ [][Next]_vars

\* the core called without ensure_requirements
NextCore ==
    \/ BuildPoolUnchecked
    \/ GenerateStart
    \/ Seed
    \/ Fill
    \/ Return

SpecCore == Init /\ [][NextCore]_vars

(***************************************************************************)
(* secure_shuffle on its own, one pass of its loop at a time.              *)
(***************************************************************************)
\* the longest list shuffled
MaxShuffle == 4

\* the lists shuffled: every string over "abc", and the prefixes of
\* "abcdefghijklmnopqrstuvwxyz" (distinct characters)
ShuffleInputs ==
    UNION {[1..n -> {97, 98, 99}] : n \in 0..MaxShuffle}
        \cup {SubSeq(ascii_lowercase, 1, n) : n \in 0..MaxShuffle}

\* the namespace of a command line without arguments
DefaultArgs ==
    [lower |-> FALSE, upper |-> FALSE, digits |-> FALSE, symbols |-> FALSE,
     symbols_set |-> None, exclude |-> <<>>, no_ambiguous |-> FALSE,
     url_safe |-> FALSE, length |-> 16, count |-> 1,
     require_classes |-> FALSE, no_repeat |-> FALSE,
     prefix |-> <<>>, suffix |-> <<>>]

InitShuffle ==
    /\ args = DefaultArgs
    /\ pc = "secure_shuffle"
    /\ pool = <<>>
    /\ class_names = <<>>
    /\ exit = ""
    /\ missing = <<>>
    /\ pool_map = EmptyMap
    /\ passwords = <<>>
    /\ chars = <<>>
    /\ pwds = NotReturned
    /\ \E lst \in ShuffleInputs :
          shuffle = [input |-> lst, lst |-> lst, i |-> Len(lst) - 1, draws |-> <<>>]

\* one pass of the loop: j = randbelow(i + 1), then the swap
ShuffleStep ==
    /\ pc = "secure_shuffle"
    /\ shuffle.i >= 1
    /\ \E j \in 0..shuffle.i :
          shuffle' = [shuffle EXCEPT !.lst = Swap(@, shuffle.i, j),
                                     !.i = @ - 1,
                                     !.draws = Append(@, j)]
    /\ UNCHANGED <<args, pc, pool, class_names, exit, missing, pool_map,
                   passwords, chars, pwds>>

\* the range is exhausted: secure_shuffle returns
ShuffleReturn ==
    /\ pc = "secure_shuffle"
    /\ shuffle.i < 1
    /\ pc' = "shuffled"
    /\ UNCHANGED <<args, pool, class_names, exit, missing, pool_map,
                   passwords, chars, pwds, shuffle>>

NextShuffle ==
    \/ ShuffleStep
    \/ ShuffleReturn

\* the loop runs on its own thread of control: it takes its next step
SpecShuffle == InitShuffle /\ [][NextShuffle]_vars /\ WF_vars(NextShuffle)

(***************************************************************************)
(* Properties.                                                             *)
(***************************************************************************)
\* build_pool returned
Built == pc # "build_pool" /\ exit \notin {"EmptySelection", "EmptyPool"}

\* ensure_requirements returned
Accepted == pc \in {"generate_passwords", "loop", "fill", "done"}

\* the random portion of a password
CoreOf(pwd) == SubSeq(pwd, Len(args.prefix) + 1, Len(pwd) - Len(args.suffix))

\* every password built so far, and every password returned
Built_Passwords ==
    {passwords[i] : i \in DOMAIN passwords} \cup {pwds.list[i] : i \in DOMAIN pwds.list}

Distinct(s) == \A i, j \in DOMAIN s : i # j => s[i] # s[j]

\* C1: with no_repeat, the core of every generated password has exactly
\* `length` pairwise-distinct characters, all of them members of the pool.
C1_NoRepeatCore ==
    args.no_repeat =>
        \A pwd \in Built_Passwords :
            /\ Len(CoreOf(pwd)) = args.length
            /\ Distinct(CoreOf(pwd))
            /\ CharSet(CoreOf(pwd)) \subseteq CharSet(pool)

C1_Witness ==
    /\ pc = "done"
    /\ args.no_repeat /\ args.require_classes /\ ~args.url_safe
    /\ Len(class_names) = 2
    /\ Len(pool) = 3
    /\ args.length = 3
    /\ Len(pwds.list) >= 1

\* the base characters of a standard class, as sets of code points
ClassChars(n) ==
    CASE n = "lower" -> 97..122
      [] n = "upper" -> 65..90
      [] n = "digits" -> 48..57
      [] n = "symbols" -> (33..47) \cup (58..64) \cup (91..96) \cup (123..126)
      [] OTHER -> {}

\* C2: with require_classes and url_safe off, the core of every generated
\* password contains a character of each active class's slice of the pool,
\* whatever no_repeat is.
C2_EveryClassPresent ==
    (args.require_classes /\ ~args.url_safe) =>
        \A pwd \in Built_Passwords :
            \A i \in DOMAIN class_names :
                CharSet(CoreOf(pwd)) \cap CharSet(pool) \cap ClassChars(class_names[i]) # {}

C2_Witness ==
    /\ pc = "done"
    /\ args.require_classes /\ ~args.url_safe /\ ~args.no_repeat
    /\ Len(class_names) = 2
    /\ args.length = 3
    /\ Len(pwds.list) = 2
    /\ pwds.list[1] # pwds.list[2]

\* C3: every generated password is prefix + core + suffix with the prefix
\* and the suffix unchanged and a core of exactly `length` pool characters;
\* the seeded characters never outnumber `length`.
C3_PrefixCoreSuffix ==
    /\ \A pwd \in Built_Passwords :
          /\ Len(pwd) = Len(args.prefix) + args.length + Len(args.suffix)
          /\ SubSeq(pwd, 1, Len(args.prefix)) = args.prefix
          /\ SubSeq(pwd, Len(pwd) - Len(args.suffix) + 1, Len(pwd)) = args.suffix
          /\ CharSet(CoreOf(pwd)) \subseteq CharSet(pool)
    /\ pc = "fill" => Len(chars) <= args.length

C3_Witness ==
    /\ pc = "done"
    /\ ~args.no_repeat /\ args.require_classes /\ ~args.url_safe
    /\ args.prefix # <<>> /\ args.suffix # <<>>
    /\ args.length = 3
    /\ \E i \in DOMAIN pwds.list : ~Distinct(CoreOf(pwds.list[i]))

StrictlyAscending(s) == \A i \in 1..(Len(s) - 1) : s[i] < s[i + 1]

\* C4: a pool that build_pool returns is non-empty and strictly ascending,
\* has no whitespace, no excluded character and, with no_ambiguous and
\* url_safe off, no ambiguous character; the class list is non-empty.
C4_PoolWellFormed ==
    Built =>
        /\ pool # <<>>
        /\ StrictlyAscending(pool)
        /\ CharSet(pool) \cap {32, 9, 13, 10} = {}
        /\ CharSet(pool) \cap CharSet(args.exclude) = {}
        /\ (args.no_ambiguous /\ ~args.url_safe) =>
              CharSet(pool) \cap AMBIGUOUS_DEFAULT = {}
        /\ class_names # <<>>

C4_Witness ==
    /\ Built
    /\ args.symbols /\ ~args.symbols_set.is_none /\ ~args.url_safe
    /\ args.exclude = <<>>
    /\ args.no_ambiguous
    /\ pool = <<33, 97>>

\* C5 as stated: with no class flag and url_safe off, build_pool fails
\* with EmptySelection.
C5_Original ==
    (pc # "build_pool" /\ ~includes_specified(args) /\ ~args.url_safe) =>
        (pc = "exit" /\ exit = "EmptySelection")

\* C5 as amended: build_pool never fails with EmptySelection; with no class
\* flag and url_safe off all four classes are active, and build_pool returns
\* them or fails with EmptyPool.
C5_DefaultAllClasses ==
    /\ exit # "EmptySelection"
    /\ (pc # "build_pool" /\ ~includes_specified(args) /\ ~args.url_safe) =>
          \/ pc = "exit" /\ exit = "EmptyPool"
          \/ Built /\ class_names = <<"lower", "upper", "digits", "symbols">>

C5_Witness ==
    /\ Built
    /\ ~includes_specified(args) /\ ~args.url_safe
    /\ args.exclude = <<>>
    /\ Len(pool) = 94
    /\ class_names = <<"lower", "upper", "digits", "symbols">>

\* the errors of ensure_requirements
ValidationErrors ==
    {"InvalidLength", "PoolTooSmall", "UnsatisfiableClass", "LengthBelowClassCount"}

\* ensure_requirements ran: it returned or it exited
Validated == Accepted \/ (pc = "exit" /\ exit \in ValidationErrors)

\* the answer of validate: "" is Ok
Verdict == IF Accepted THEN "" ELSE exit

\* the active classes with no character of the given base set in the pool
EmptiedClasses(base(_)) ==
    SelectSeq(class_names, LAMBDA n : CharSet(pool) \cap base(n) = {})

ClassCheckApplies == args.require_classes /\ class_names # <<"url_safe">>

\* C6: validate answers with the first error that applies, in the order
\* InvalidLength, PoolTooSmall, UnsatisfiableClass, LengthBelowClassCount,
\* and with Ok exactly when none applies.
C6_FirstErrorInOrder ==
    Validated =>
        Verdict =
            IF args.length < 1 THEN "InvalidLength"
            ELSE IF args.no_repeat /\ args.length > Len(pool) THEN "PoolTooSmall"
            ELSE IF ClassCheckApplies /\ EmptiedClasses(ClassChars) # <<>>
                 THEN "UnsatisfiableClass"
            ELSE IF ClassCheckApplies /\ args.length < Len(class_names)
                 THEN "LengthBelowClassCount"
            ELSE ""

C6_Witness ==
    /\ pc = "exit" /\ exit = "LengthBelowClassCount"
    /\ args.length = 2
    /\ Len(class_names) = 3
    /\ args.no_repeat

\* the base characters of a class as build_pool uses them: the symbols
\* class is the --symbols-set override when one is given
SelectedChars(n) ==
    IF n = "symbols" /\ ~args.symbols_set.is_none
    THEN CharSet(args.symbols_set.value)
    ELSE ClassChars(n)

\* C7: with require_classes and url_safe off, validate fails with
\* UnsatisfiableClass exactly when an active class has none of its base
\* characters (for symbols: the override, when given) left in the pool, and
\* it lists exactly those classes.
C7_UnsatisfiableExactlyEmptied ==
    (Validated /\ ClassCheckApplies /\ args.length >= 1
        /\ ~(args.no_repeat /\ args.length > Len(pool))) =>
        /\ (pc = "exit" /\ exit = "UnsatisfiableClass")
              <=> EmptiedClasses(SelectedChars) # <<>>
        /\ missing = EmptiedClasses(SelectedChars)

\* the unreserved URL characters: 0-9 A-Z a-z - . _ ~
UnreservedChars == (48..57) \cup (65..90) \cup (97..122) \cup {45, 46, 95, 126}

\* what C8 states of the pool and of require_classes, for a pool of
\* `size` characters when nothing is excluded
UrlSafeFixedPool(size) ==
    (Built /\ args.url_safe) =>
        /\ class_names = <<"url_safe">>
        /\ StrictlyAscending(pool)
        /\ CharSet(pool) = UnreservedChars \ CharSet(args.exclude)
        /\ (args.exclude = <<>> => Len(pool) = size)
        /\ exit \notin {"UnsatisfiableClass", "LengthBelowClassCount"}
        /\ (pc = "fill" => chars = <<>>)

\* C8 as stated: with url_safe the class list is ["url_safe"] and the pool
\* is the 64 unreserved characters minus the excluded ones (exactly 64 when
\* nothing is excluded), whatever the class flags, the symbols override and
\* no_ambiguous are; require_classes then causes no class check in validate
\* and no seeding in generate.
C8_Original == UrlSafeFixedPool(64)

\* C8 as amended: the same, the unreserved set having 66 characters.
C8_UrlSafeFixedPool == UrlSafeFixedPool(66)

C8_Witness ==
    /\ pc = "done"
    /\ args.url_safe /\ args.require_classes
    /\ args.symbols /\ ~args.symbols_set.is_none /\ args.digits
    /\ args.no_ambiguous
    /\ args.length = 1
    /\ Len(pool) = 3

\* the errors of generate_passwords
GenerationErrors == {"InsufficientUniqueChars", "IndexError"}

\* the number of characters one pass seeds, from the inputs alone
SeedCount == IF args.require_classes /\ ~args.url_safe THEN Len(class_names) ELSE 0

\* whether generate fails, from the inputs alone
FailsByInputs ==
    \/ /\ args.require_classes /\ ~args.url_safe
       /\ EmptiedClasses(ClassChars) # <<>>
    \/ /\ args.no_repeat
       /\ ~(args.require_classes /\ ~args.url_safe /\ EmptiedClasses(ClassChars) # <<>>)
       /\ Len(pool) - SeedCount < args.length - SeedCount

\* C9: whether generate fails is decided by pool, class list and config and
\* not by the draws; a run that fails returns no list, a run that does not
\* returns `count` passwords.
C9_FailureByInputsOnly ==
    /\ (pc = "exit" /\ exit \in GenerationErrors) =>
          FailsByInputs /\ pwds = NotReturned /\ passwords = <<>>
    /\ (pc \in {"loop", "fill"} /\ passwords # <<>>) => ~FailsByInputs
    /\ pc = "done" =>
          ~FailsByInputs /\ pwds.returned /\ Len(pwds.list) = args.count

C9_Witness ==
    /\ pc = "exit" /\ exit = "InsufficientUniqueChars"
    /\ args.require_classes /\ ~args.url_safe
    /\ Len(class_names) = 2
    /\ Len(pool) = 2
    /\ args.length = 3
    /\ args.count = 2

\* how often x occurs in s
Count(s, x) == Cardinality({i \in DOMAIN s : s[i] = x})

\* b has the elements of a, each as often
PermutationOf(a, b) ==
    /\ Len(a) = Len(b)
    /\ \A x \in CharSet(a) \cup CharSet(b) : Count(a, x) = Count(b, x)

RECURSIVE Factorial(_)
Factorial(n) == IF n <= 1 THEN 1 ELSE n * Factorial(n - 1)

\* the orderings secure_shuffle makes of lst over all its draw sequences
Orderings(lst) == {secure_shuffle(lst, d) : d \in ShuffleDraws(Len(lst))}

\* what holds of a call of secure_shuffle that returned
ShuffleResult ==
    pc = "shuffled" =>
        /\ PermutationOf(shuffle.input, shuffle.lst)
        /\ shuffle.draws \in ShuffleDraws(Len(shuffle.input))
        /\ shuffle.lst = secure_shuffle(shuffle.input, shuffle.draws)
        /\ Distinct(shuffle.input) =>
              /\ Cardinality(ShuffleDraws(Len(shuffle.input)))
                    = Factorial(Len(shuffle.input))
              /\ Cardinality(Orderings(shuffle.input))
                    = Factorial(Len(shuffle.input))
              /\ \A o \in Orderings(shuffle.input) : PermutationOf(shuffle.input, o)

\* C11: secure_shuffle always terminates, with a permutation of its input;
\* on n distinct elements its draw sequences (one draw in 0..i for each i
\* from n - 1 down to 1) map one-to-one onto all n! orderings.
C11_ShuffleUnbiased == []ShuffleResult /\ <>(pc = "shuffled")

C11_Witness ==
    /\ pc = "shuffled"
    /\ shuffle.input = <<97, 98, 99, 100>>
    /\ shuffle.lst = <<100, 99, 98, 97>>
    /\ Len(shuffle.draws) = 3

\* C12: after validate accepted, generate never fails (not with
\* InsufficientUniqueChars, not otherwise) and returns exactly `count`
\* passwords, also with no_repeat and require_classes both on: the seeded
\* characters are pairwise distinct members of the pool, and the unused
\* characters are at least as many as remain to be filled.
C12_GenerateNeverFails ==
    /\ exit \notin GenerationErrors
    /\ pc = "fill" =>
          /\ Distinct(chars)
          /\ CharSet(chars) \subseteq CharSet(pool)
          /\ args.no_repeat =>
                Len(available(pool, chars)) >= remaining_of(args, chars)
    /\ pc \in {"loop", "fill"} => Len(passwords) <= args.count
    /\ pc = "done" => pwds.returned /\ Len(pwds.list) = args.count

C12_Witness ==
    /\ pc = "done"
    /\ args.no_repeat /\ args.require_classes /\ ~args.url_safe
    /\ Len(class_names) = 2
    /\ Len(pool) = 2
    /\ args.length = 2
    /\ Len(pwds.list) = 2

====
